---- MODULE Spec2Model ----
(***************************************************************************)
(* A model of backend/server.js: the start-up sequence, the credential     *)
(* routes (register, login), the authentication middleware and the         *)
(* paginated CRUD routes over the devices and services tables.             *)
(*                                                                         *)
(* A handler runs from one await to the next without interruption, so an   *)
(* action is the piece of a handler between two awaits: the execution of   *)
(* the awaited store query together with the continuation that consumes    *)
(* its result.  Handlers with one query are one action; register and the   *)
(* two list handlers have two queries and are split at the second one, so  *)
(* that other requests' queries can execute in between.                    *)
(***************************************************************************)
EXTENDS Integers, Sequences, FiniteSets, TLC

VARIABLES
    connCheck,    \* the db.getConnection() promise: "pending", "ok" or "failed"
    listenCalls,  \* how many times app.listen has been invoked
    alive,        \* the process is running
    now,          \* the clock, in hours
    users,        \* the users table, in store order
    devices,      \* the devices table, in store order
    services,     \* the services table, in store order
    nextId,       \* the AUTO_INCREMENT counter of each table
    regs,         \* the register requests suspended at an await
    listing,      \* the list request suspended at an await
    res           \* the response written by the last step, until it is delivered

vars == <<connCheck, listenCalls, alive, now, users, devices, services,
          nextId, regs, listing, res>>

boot == <<connCheck, listenCalls, alive>>
tables == <<users, devices, services, nextId>>

(***************************************************************************)
(* Bounds of the model.                                                    *)
(***************************************************************************)
MaxClock == 1      \* the clock stops here
MaxRows == 2       \* rows ever inserted into devices and services together
MaxRegs == 2       \* register requests suspended at the same time

(***************************************************************************)
(* Values.                                                                 *)
(***************************************************************************)
Undefined == "undefined"
Null == "NULL"
NoneStr == "-"

Min(a, b) == IF a < b THEN a ELSE b

\* expiresIn: '1h', in hours
ExpiresIn == 1

\* process.env.JWT_SECRET and any other key
Secret == "JWT_SECRET"
OtherKey == "other"

Placeholder == "/uploads/placeholder.jpg"

(***************************************************************************)
(* The persistent store (MySQL through mysql2's query).                    *)
(***************************************************************************)
\* SELECT * FROM users WHERE email = ?
SelectUsersByEmail(tbl, email) == SelectSeq(tbl, LAMBDA r : r.email = email)

\* a users table without the key on email
EmailUniqueOff(tbl, email) == TRUE

\* users(id, email unique, password, role): the key that rejects a second row
\* with the same email
EmailUnique(tbl, email) == \A i \in 1..Len(tbl) : tbl[i].email # email

\* INSERT INTO users (email, password, role) VALUES (?, ?, ?)
InsertUserRow(tbl, id, email, password, role) ==
    Append(tbl, [id |-> id, email |-> email, password |-> password, role |-> role])

\* SELECT * FROM <table> LIMIT ? OFFSET ? is a syntax error for a negative number
LimitOffsetOk(limit, offset) == limit >= 0 /\ offset >= 0

\* SELECT * FROM <table> LIMIT ? OFFSET ?
SelectLimitOffset(tbl, limit, offset) ==
    SubSeq(tbl, offset + 1, Min(offset + limit, Len(tbl)))

\* SELECT COUNT(*) as total FROM <table>
CountRows(tbl) == Len(tbl)

\* INSERT INTO <table> (..., image, ...) VALUES (...)
InsertRow(tbl, id, fields, image) ==
    Append(tbl, [id |-> id, fields |-> fields, image |-> image])

\* an UPDATE without its WHERE clause
UpdateRowsAll(tbl, id, fields, image) ==
    [i \in 1..Len(tbl) |-> [id |-> tbl[i].id, fields |-> fields, image |-> image]]

\* UPDATE <table> SET ... = ?, image = ?, ... WHERE id = ?
UpdateRows(tbl, id, fields, image) ==
    [i \in 1..Len(tbl) |->
        IF tbl[i].id = id
        THEN [id |-> tbl[i].id, fields |-> fields, image |-> image]
        ELSE tbl[i]]

\* DELETE FROM <table> WHERE id = ?
DeleteRows(tbl, id) == SelectSeq(tbl, LAMBDA r : r.id # id)

\* mysql2 writes an undefined parameter as NULL
SqlValue(v) == IF v = Undefined THEN Null ELSE v

Table(kind) == IF kind = "devices" THEN devices ELSE services
OtherTable(kind) == IF kind = "devices" THEN services ELSE devices

Ids(tbl) == {tbl[i].id : i \in 1..Len(tbl)}

(***************************************************************************)
(* Responses.  A response is a record of the request's input, what the     *)
(* handler answered, and what the handler did on the way.                  *)
(***************************************************************************)
NoHeader == [present |-> FALSE, rest |-> <<>>]
NoToken == [fmt |-> Undefined, sig |-> NoneStr, exp |-> 0, id |-> 0, role |-> NoneStr]
NoUser == [id |-> 0, role |-> NoneStr]
NoRaw == [present |-> FALSE, chars |-> <<>>]
NoFile == [present |-> FALSE, ext |-> NoneStr, ts |-> 0]

Blank ==
    [ route |-> NoneStr, kind |-> NoneStr, status |-> 0, body |-> NoneStr,
      email |-> Undefined, password |-> Undefined,
      auth |-> NoHeader, at |-> 0, user |-> NoUser,
      praw |-> NoRaw, lraw |-> NoRaw, page |-> 0, limit |-> 0, offset |-> 0,
      id |-> 0, fields |-> Undefined, file |-> NoFile, bimage |-> Undefined,
      image |-> Undefined,
      token |-> NoToken, role |-> NoneStr, items |-> <<>>, total |-> 0,
      queries |-> 0, writes |-> 0, failed |-> 0, applied |-> 0,
      uploaded |-> FALSE, pre |-> <<>>, preOther |-> <<>>, seen |-> <<>>,
      stored |-> FALSE ]

None == [Blank EXCEPT !.route = "none"]

\* res.status(s).json(b), with what else is known about the request
Resp(route, kind, status, body, more) ==
    more @@ [route |-> route, kind |-> kind, status |-> status, body |-> body] @@ Blank

(***************************************************************************)
(* Start-up.                                                               *)
(***************************************************************************)
\* requests are accepted once the process listens
Up == alive /\ listenCalls >= 1

\* the client receives a response before the next step is observed
Quiet == res = None

\* the app.listen at the end of the script, run while the module loads
Listen ==
    /\ alive /\ listenCalls = 0 /\ Quiet
    /\ listenCalls' = 1
    /\ UNCHANGED <<connCheck, alive, now, tables, regs, listing, res>>

\* the .then of db.getConnection(): release the connection and call app.listen
\* again; on a port already bound the second server emits an error event,
\* which without a listener ends the process
ConnThen ==
    /\ alive /\ listenCalls >= 1 /\ connCheck = "pending" /\ Quiet
    /\ connCheck' = "ok"
    /\ listenCalls' = listenCalls + 1
    /\ \E crash \in BOOLEAN : alive' = ~crash
    /\ UNCHANGED <<now, tables, regs, listing, res>>

\* the .catch of db.getConnection(): process.exit(1)
ConnCatch ==
    /\ alive /\ listenCalls >= 1 /\ connCheck = "pending" /\ Quiet
    /\ connCheck' = "failed"
    /\ alive' = FALSE
    /\ UNCHANGED <<listenCalls, now, tables, regs, listing, res>>

Tick ==
    /\ now < MaxClock /\ Quiet
    /\ now' = now + 1
    /\ UNCHANGED <<boot, tables, regs, listing, res>>

Deliver ==
    /\ res # None
    /\ res' = None
    /\ UNCHANGED <<boot, now, tables, regs, listing>>

(***************************************************************************)
(* Tokens.                                                                 *)
(***************************************************************************)
\* jwt.sign({ id, role }, key, { expiresIn: '1h' }) at time t
Sign(id, role, key, t) ==
    [fmt |-> "jwt", sig |-> key, exp |-> t + ExpiresIn, id |-> id, role |-> role]

\* a verification that does not look at the expiry
VerifyErrNoExpiry(token, t) ==
    \/ token.fmt # "jwt"
    \/ token.sig # Secret

\* jwt.verify(token, process.env.JWT_SECRET, cb) calls back with err
VerifyErr(token, t) ==
    \/ token.fmt # "jwt"
    \/ token.sig # Secret
    \/ t >= token.exp

\* the payload jwt.verify calls back with
Decoded(token) == [id |-> token.id, role |-> token.role]

(***************************************************************************)
(* Register.                                                               *)
(***************************************************************************)
\* !email, !password
Falsy(v) == v = Undefined \/ v = ""

\* a suspended register request; a new request takes the first free place
IdleReg == [pc |-> "idle", email |-> Undefined, password |-> Undefined,
            stored |-> FALSE]

\* an existence test that is off by one
EmailExistsOffByOne(existingUsers) == Len(existingUsers) > 1

\* existingUsers.length > 0
EmailExists(existingUsers) == Len(existingUsers) > 0

\* the handler up to its first await
RegisterStart(s, email, password) ==
    /\ Up /\ Quiet
    /\ regs[s].pc = "idle"
    /\ \A o \in 1..(s - 1) : regs[o].pc # "idle"
    /\ IF Falsy(email) \/ Falsy(password)
       THEN /\ res' = Resp("register", "users", 400, "Invalid input",
                           [email |-> email, password |-> password, pre |-> users])
            /\ UNCHANGED regs
       ELSE /\ regs' = [regs EXCEPT ![s] = [pc |-> "select", email |-> email,
                                            password |-> password, stored |-> FALSE]]
            /\ UNCHANGED res
    /\ UNCHANGED <<boot, now, tables, listing>>

\* the SELECT executes and the handler runs to its second await
RegisterSelect(s, ok) ==
    /\ alive /\ Quiet
    /\ regs[s].pc = "select"
    /\ LET r == regs[s]
           existingUsers == SelectUsersByEmail(users, r.email)
           stored == \E i \in 1..Len(users) : users[i].email = r.email
           in == [email |-> r.email, password |-> r.password, seen |-> users,
                  pre |-> users, queries |-> 1, stored |-> stored]
       IN  IF ~ok
           THEN /\ res' = Resp("register", "users", 500, "Registration failed",
                               [failed |-> 1] @@ in)
                /\ regs' = [regs EXCEPT ![s] = IdleReg]
           ELSE IF EmailExists(existingUsers)
           THEN /\ res' = Resp("register", "users", 400, "Email already exists", in)
                /\ regs' = [regs EXCEPT ![s] = IdleReg]
           ELSE /\ regs' = [regs EXCEPT ![s] = [r EXCEPT !.pc = "insert", !.stored = stored]]
                /\ UNCHANGED res
    /\ UNCHANGED <<boot, now, tables, listing>>

\* the INSERT executes and the handler answers
RegisterInsert(s, ok) ==
    /\ alive /\ Quiet
    /\ regs[s].pc = "insert"
    /\ LET r == regs[s]
           in == [email |-> r.email, password |-> r.password, pre |-> users,
                  queries |-> 2, writes |-> 1, stored |-> r.stored]
       IN  IF ok /\ EmailUnique(users, r.email)
           THEN /\ users' = InsertUserRow(users, nextId.users, r.email, r.password, "user")
                /\ nextId' = [nextId EXCEPT !.users = @ + 1]
                /\ res' = Resp("register", "users", 201, "User registered",
                               [applied |-> 1] @@ in)
           ELSE /\ res' = Resp("register", "users", 500, "Registration failed",
                               [failed |-> 1] @@ in)
                /\ UNCHANGED <<users, nextId>>
    /\ regs' = [regs EXCEPT ![s] = IdleReg]
    /\ UNCHANGED <<boot, now, devices, services, listing>>

(***************************************************************************)
(* Login.                                                                  *)
(***************************************************************************)
\* a comparison that accepts every password
PasswordMismatchNever(password, user) == FALSE

\* password !== user.password
PasswordMismatch(password, user) == password # user.password

\* a handler whose catch answers as if no user had been found
LoginAnswerSwallow(tbl, email, password, ok, t) ==
    LET found == SelectUsersByEmail(tbl, email)
        in == [email |-> email, password |-> password, pre |-> tbl, queries |-> 1]
    IN  IF ~ok \/ Len(found) = 0
        THEN Resp("login", "users", 401, "User not found",
                  [failed |-> IF ok THEN 0 ELSE 1] @@ in)
        ELSE IF password # found[1].password
        THEN Resp("login", "users", 401, "Invalid password", in)
        ELSE Resp("login", "users", 200, "token",
                  [token |-> Sign(found[1].id, found[1].role, Secret, t),
                   role |-> found[1].role] @@ in)

\* the handler's answer, given the table its SELECT reads
LoginAnswer(tbl, email, password, ok, t) ==
    LET found == SelectUsersByEmail(tbl, email)
        in == [email |-> email, password |-> password, pre |-> tbl, queries |-> 1]
    IN  IF ~ok
        THEN Resp("login", "users", 500, "Login failed", [failed |-> 1] @@ in)
        ELSE IF Len(found) = 0
        THEN Resp("login", "users", 401, "User not found", in)
        ELSE IF PasswordMismatch(password, found[1])
        THEN Resp("login", "users", 401, "Invalid password", in)
        ELSE Resp("login", "users", 200, "token",
                  [token |-> Sign(found[1].id, found[1].role, Secret, t),
                   role |-> found[1].role] @@ in)

Login(email, password, ok) ==
    /\ Up /\ Quiet
    /\ res' = LoginAnswer(users, email, password, ok, now)
    /\ UNCHANGED <<boot, now, tables, regs, listing>>

(***************************************************************************)
(* The authentication middleware.                                          *)
(***************************************************************************)
\* authHeader && authHeader.split(' ')[1]
TokenOf(authHeader) ==
    IF authHeader.present /\ Len(authHeader.rest) >= 1
    THEN authHeader.rest[1]
    ELSE NoToken

\* !token
TokenMissing(token) == token.fmt = Undefined

\* authenticateToken: "401", "403" or "next"
authenticateToken(authHeader, t) ==
    IF TokenMissing(TokenOf(authHeader)) THEN "401"
    ELSE IF VerifyErr(TokenOf(authHeader), t) THEN "403"
    ELSE "next"

\* the response of a request the middleware stops
Stopped(route, kind, authHeader, t) ==
    IF authenticateToken(authHeader, t) = "401"
    THEN Resp(route, kind, 401, "Token required", [auth |-> authHeader, at |-> t])
    ELSE Resp(route, kind, 403, "Invalid token", [auth |-> authHeader, at |-> t])

\* what the middleware leaves on a request it lets through: req.user = user
Passed(authHeader, t) ==
    [auth |-> authHeader, at |-> t, user |-> Decoded(TokenOf(authHeader))]

\* a request to a resource route that the middleware answers itself
Stop(route, kind, authHeader) ==
    /\ Up /\ Quiet
    /\ authenticateToken(authHeader, now) # "next"
    /\ res' = Stopped(route, kind, authHeader, now)
    /\ UNCHANGED <<boot, now, tables, regs, listing>>

(***************************************************************************)
(* Pagination.                                                             *)
(***************************************************************************)
NaN == [nan |-> TRUE, val |-> 0]
Num(n) == [nan |-> FALSE, val |-> n]

Digits == <<"0", "1", "2", "3", "4", "5", "6", "7", "8", "9">>
IsDigit(c) == \E d \in 1..Len(Digits) : Digits[d] = c
DigitVal(c) == (CHOOSE d \in 1..Len(Digits) : Digits[d] = c) - 1

\* the value of the longest prefix of digits of chars, from acc; n counts them
RECURSIVE DigitPrefix(_, _, _)
DigitPrefix(chars, acc, n) ==
    IF chars = <<>> \/ ~IsDigit(Head(chars))
    THEN [val |-> acc, n |-> n]
    ELSE DigitPrefix(Tail(chars), acc * Len(Digits) + DigitVal(Head(chars)), n + 1)

RECURSIVE SkipSpaces(_)
SkipSpaces(chars) ==
    IF chars # <<>> /\ Head(chars) = " " THEN SkipSpaces(Tail(chars)) ELSE chars

\* parseInt(req.query.x): leading blanks, an optional sign, then digits; NaN
\* without a digit, and for an absent parameter
parseInt(raw) ==
    IF ~raw.present THEN NaN
    ELSE LET s == SkipSpaces(raw.chars)
             neg == s # <<>> /\ Head(s) = "-"
             body == IF s # <<>> /\ Head(s) \in {"-", "+"} THEN Tail(s) ELSE s
             p == DigitPrefix(body, 0, 0)
         IN  IF p.n = 0 THEN NaN
             ELSE IF neg THEN Num(0 - p.val) ELSE Num(p.val)

\* parseInt(x) || d: NaN and 0 are falsy
OrDefault(v, d) == IF v.nan \/ v.val = 0 THEN d ELSE v.val

DefaultPage == 1
DefaultLimit == 10

\* const page = parseInt(req.query.page) || 1
PageOf(praw) == OrDefault(parseInt(praw), DefaultPage)
\* const limit = parseInt(req.query.limit) || 10
LimitOf(lraw) == OrDefault(parseInt(lraw), DefaultLimit)
\* an offset that skips the first page
OffsetOfPage(page, limit) == page * limit

\* const offset = (page - 1) * limit
OffsetOf(page, limit) == (page - 1) * limit

(***************************************************************************)
(* The resource routes.                                                    *)
(***************************************************************************)
Noun(kind) == IF kind = "devices" THEN "device" ELSE "service"
Cap(kind) == IF kind = "devices" THEN "Device" ELSE "Service"

\* multer's filename: Date.now() + path.extname(file.originalname)
Filename(file) == ToString(file.ts) \o file.ext

\* `/uploads/${req.file.filename}`
UploadRef(file) == "/uploads/" \o Filename(file)

\* req.file ? `/uploads/${req.file.filename}` : '/uploads/placeholder.jpg'
CreateImage(file) == IF file.present THEN UploadRef(file) ELSE Placeholder

\* req.file ? `/uploads/${req.file.filename}` : req.body.image
UpdateImage(file, bimage) == IF file.present THEN UploadRef(file) ELSE bimage

SetTable(kind, tbl) ==
    /\ devices' = IF kind = "devices" THEN tbl ELSE devices
    /\ services' = IF kind = "services" THEN tbl ELSE services

Inserted == (nextId.devices - 1) + (nextId.services - 1)

\* the suspended list request
IdleList == [pc |-> "idle", kind |-> NoneStr, auth |-> NoHeader, at |-> 0,
             user |-> NoUser, praw |-> NoRaw, lraw |-> NoRaw,
             page |-> 0, limit |-> 0, offset |-> 0, items |-> <<>>, seen |-> <<>>]

\* GET /api/<kind>, up to the first await
ListStart(kind, authHeader, praw, lraw) ==
    /\ Up /\ Quiet
    /\ listing.pc = "idle"
    /\ authenticateToken(authHeader, now) = "next"
    /\ listing' = [pc |-> "select", kind |-> kind, praw |-> praw, lraw |-> lraw,
                   page |-> PageOf(praw), limit |-> LimitOf(lraw),
                   offset |-> OffsetOf(PageOf(praw), LimitOf(lraw)),
                   items |-> <<>>, seen |-> <<>>] @@ Passed(authHeader, now)
    /\ UNCHANGED <<boot, now, tables, regs, res>>

ListIn(l) ==
    [auth |-> l.auth, at |-> l.at, user |-> l.user, praw |-> l.praw, lraw |-> l.lraw,
     page |-> l.page, limit |-> l.limit, offset |-> l.offset]

\* the SELECT ... LIMIT ? OFFSET ? executes; the handler runs to its second await
ListSelect(ok) ==
    /\ alive /\ Quiet
    /\ listing.pc = "select"
    /\ LET l == listing
           tbl == Table(l.kind)
       IN  IF ok /\ LimitOffsetOk(l.limit, l.offset)
           THEN /\ listing' = [l EXCEPT !.pc = "count", !.seen = tbl,
                                 !.items = SelectLimitOffset(tbl, l.limit, l.offset)]
                /\ UNCHANGED res
           ELSE /\ res' = Resp("list", l.kind, 500, "Failed to fetch " \o l.kind,
                               [queries |-> 1, failed |-> 1, seen |-> tbl, pre |-> tbl,
                                preOther |-> OtherTable(l.kind)]
                                   @@ ListIn(l))
                /\ listing' = IdleList
    /\ UNCHANGED <<boot, now, tables, regs>>

\* the SELECT COUNT(*) executes and the handler answers
ListCount(ok) ==
    /\ alive /\ Quiet
    /\ listing.pc = "count"
    /\ LET l == listing
           tbl == Table(l.kind)
           in == [queries |-> 2, seen |-> l.seen, pre |-> tbl,
                  preOther |-> OtherTable(l.kind)] @@ ListIn(l)
       IN  IF ok
           THEN res' = Resp("list", l.kind, 200, l.kind,
                            [items |-> l.items, total |-> CountRows(tbl)] @@ in)
           ELSE res' = Resp("list", l.kind, 500, "Failed to fetch " \o l.kind,
                            [failed |-> 1] @@ in)
    /\ listing' = IdleList
    /\ UNCHANGED <<boot, now, tables, regs>>

\* POST /api/<kind>
Create(kind, authHeader, fields, file, ok) ==
    /\ Up /\ Quiet
    /\ Inserted < MaxRows
    /\ authenticateToken(authHeader, now) = "next"
    /\ LET tbl == Table(kind)
           image == CreateImage(file)
           in == [fields |-> fields, file |-> file, image |-> image,
                  uploaded |-> file.present, pre |-> tbl,
                  preOther |-> OtherTable(kind), queries |-> 1, writes |-> 1]
                     @@ Passed(authHeader, now)
       IN  IF ok
           THEN /\ SetTable(kind, InsertRow(tbl, nextId[kind], SqlValue(fields),
                                            SqlValue(image)))
                /\ nextId' = [nextId EXCEPT ![kind] = @ + 1]
                /\ res' = Resp("create", kind, 201, Cap(kind) \o " added",
                               [applied |-> 1, id |-> nextId[kind]] @@ in)
           ELSE /\ res' = Resp("create", kind, 500, "Failed to add " \o Noun(kind),
                               [failed |-> 1] @@ in)
                /\ UNCHANGED <<devices, services, nextId>>
    /\ UNCHANGED <<boot, now, users, regs, listing>>

\* PUT /api/<kind>/:id
Update(kind, authHeader, id, fields, file, bimage, ok) ==
    /\ Up /\ Quiet
    /\ authenticateToken(authHeader, now) = "next"
    /\ LET tbl == Table(kind)
           image == UpdateImage(file, bimage)
           in == [id |-> id, fields |-> fields, file |-> file, bimage |-> bimage,
                  image |-> image, uploaded |-> file.present, pre |-> tbl,
                  preOther |-> OtherTable(kind), queries |-> 1, writes |-> 1]
                     @@ Passed(authHeader, now)
       IN  IF ok
           THEN /\ SetTable(kind, UpdateRows(tbl, id, SqlValue(fields), SqlValue(image)))
                /\ res' = Resp("update", kind, 200, Cap(kind) \o " updated",
                               [applied |-> 1] @@ in)
           ELSE /\ res' = Resp("update", kind, 500, "Failed to update " \o Noun(kind),
                               [failed |-> 1] @@ in)
                /\ UNCHANGED <<devices, services>>
    /\ UNCHANGED <<boot, now, users, nextId, regs, listing>>

\* DELETE /api/<kind>/:id
Delete(kind, authHeader, id, ok) ==
    /\ Up /\ Quiet
    /\ authenticateToken(authHeader, now) = "next"
    /\ LET tbl == Table(kind)
           in == [id |-> id, pre |-> tbl, preOther |-> OtherTable(kind),
                  queries |-> 1, writes |-> 1] @@ Passed(authHeader, now)
       IN  IF ok
           THEN /\ SetTable(kind, DeleteRows(tbl, id))
                /\ res' = Resp("delete", kind, 200, Cap(kind) \o " deleted",
                               [applied |-> 1] @@ in)
           ELSE /\ res' = Resp("delete", kind, 500, "Failed to delete " \o Noun(kind),
                               [failed |-> 1] @@ in)
                /\ UNCHANGED <<devices, services>>
    /\ UNCHANGED <<boot, now, users, nextId, regs, listing>>

(***************************************************************************)
(* Initial states.                                                         *)
(***************************************************************************)
\* the process as the script starts
Init ==
    /\ connCheck = "pending"
    /\ listenCalls = 0
    /\ alive = TRUE
    /\ now = 0
    /\ users = <<>>
    /\ devices = <<>>
    /\ services = <<>>
    /\ nextId = [users |-> 1, devices |-> 1, services |-> 1]
    /\ regs = [s \in 1..MaxRegs |-> IdleReg]
    /\ listing = IdleList
    /\ res = None

\* the process once start-up is over: the script has run, the connection
\* check has succeeded and the process is still running
InitUp ==
    /\ connCheck = "ok"
    /\ listenCalls = 2
    /\ alive = TRUE
    /\ now = 0
    /\ users = <<>>
    /\ devices = <<>>
    /\ services = <<>>
    /\ nextId = [users |-> 1, devices |-> 1, services |-> 1]
    /\ regs = [s \in 1..MaxRegs |-> IdleReg]
    /\ listing = IdleList
    /\ res = None

(***************************************************************************)
(* Inputs.                                                                 *)
(***************************************************************************)
Emails == {"a@x.com", "b@x.com"}
Passwords == {"p", "q"}
EmailInputs == Emails \cup {Undefined, ""}
PasswordInputs == Passwords \cup {Undefined, ""}

Kinds == {"devices", "services"}
Routes == {"list", "create", "update", "delete"}

\* the payload of the tokens login issues, and another one
UserPayload == [id |-> 1, role |-> "user"]
AdminPayload == [id |-> 2, role |-> "admin"]
Payloads == {UserPayload, AdminPayload}

Bearer(token) == [present |-> TRUE, rest |-> <<token>>]
Garbage == [fmt |-> "garbage", sig |-> NoneStr, exp |-> 0, id |-> 0, role |-> NoneStr]

\* the tokens issued to the payloads of P from time 0 to t
Issued(P, t) == {Bearer(Sign(c.id, c.role, Secret, iat)) : c \in P, iat \in 0..t}

\* the Authorization headers a client can send at time t: none, a scheme with
\* no token, a string that is no token, a token signed with another key, and
\* the tokens issued up to t
AuthInputs(t) ==
    {NoHeader, [present |-> TRUE, rest |-> <<>>], Bearer(Garbage)}
    \cup {Bearer(Sign(c.id, c.role, OtherKey, t)) : c \in Payloads}
    \cup Issued({UserPayload}, t)

Chars(s) == [present |-> TRUE, chars |-> s]
QueryInputs ==
    {NoRaw, Chars(<<"a", "b", "c">>), Chars(<<"0">>), Chars(<<"-", "1">>),
     Chars(<<"1">>), Chars(<<"2">>)}

FieldInputs == {"f1", "f2"}
Jpg(ts) == [present |-> TRUE, ext |-> ".jpg", ts |-> ts]
FileInputs == {NoFile, Jpg(1)}
ImageInputs == {Undefined, Placeholder}
IdInputs == 1..(MaxRows + 1)

Boot ==
    \/ Listen
    \/ ConnThen
    \/ ConnCatch

(***************************************************************************)
(* The credential routes, with register requests overlapping.              *)
(***************************************************************************)
NextAuth ==
    \/ Deliver
    \/ \E s \in 1..MaxRegs, e \in EmailInputs, p \in PasswordInputs : RegisterStart(s, e, p)
    \/ \E s \in 1..MaxRegs, ok \in BOOLEAN : RegisterSelect(s, ok)
    \/ \E s \in 1..MaxRegs, ok \in BOOLEAN : RegisterInsert(s, ok)
    \/ \E e \in EmailInputs, p \in PasswordInputs, ok \in BOOLEAN : Login(e, p, ok)

SpecAuth == InitUp /\ [][NextAuth]_vars

(***************************************************************************)
(* The create, update and delete routes over both tables.                  *)
(***************************************************************************)
NextCrud ==
    \/ Deliver
    \/ \E k \in Kinds, a \in Issued({UserPayload}, now), f \in FieldInputs,
          u \in FileInputs, ok \in BOOLEAN : Create(k, a, f, u, ok)
    \/ \E k \in Kinds, a \in Issued({UserPayload}, now), i \in IdInputs,
          f \in FieldInputs, u \in FileInputs, b \in ImageInputs, ok \in BOOLEAN :
           Update(k, a, i, f, u, b, ok)
    \/ \E k \in Kinds, a \in Issued({UserPayload}, now), i \in IdInputs, ok \in BOOLEAN :
           Delete(k, a, i, ok)

SpecCrud == InitUp /\ [][NextCrud]_vars

(***************************************************************************)
(* The list routes, with writes between the two queries of a request.      *)
(***************************************************************************)
NextList ==
    \/ Deliver
    \/ \E k \in Kinds, a \in Issued({UserPayload}, now), p \in QueryInputs,
          l \in QueryInputs : ListStart(k, a, p, l)
    \/ \E ok \in BOOLEAN : ListSelect(ok)
    \/ \E ok \in BOOLEAN : ListCount(ok)
    \/ \E k \in Kinds, a \in Issued({UserPayload}, now), ok \in BOOLEAN :
           Create(k, a, "f1", NoFile, ok)
    \/ \E k \in Kinds, a \in Issued({UserPayload}, now), i \in IdInputs, ok \in BOOLEAN :
           Delete(k, a, i, ok)

SpecList == InitUp /\ [][NextList]_vars

(***************************************************************************)
(* The middleware in front of the eight resource routes, as time passes.   *)
(***************************************************************************)
NextGate ==
    \/ Tick
    \/ Deliver
    \/ \E r \in Routes, k \in Kinds, a \in AuthInputs(now) : Stop(r, k, a)
    \/ \E k \in Kinds, a \in AuthInputs(now) : ListStart(k, a, NoRaw, NoRaw)
    \/ \E ok \in BOOLEAN : ListSelect(ok)
    \/ \E ok \in BOOLEAN : ListCount(ok)
    \/ \E k \in Kinds, a \in AuthInputs(now), ok \in BOOLEAN :
           listing.pc = "idle" /\ Create(k, a, "f1", NoFile, ok)
    \/ \E k \in Kinds, a \in AuthInputs(now), i \in {1}, u \in FileInputs, ok \in BOOLEAN :
           listing.pc = "idle" /\ Update(k, a, i, "f1", u, Placeholder, ok)
    \/ \E k \in Kinds, a \in AuthInputs(now), i \in {1}, ok \in BOOLEAN :
           listing.pc = "idle" /\ Delete(k, a, i, ok)

SpecGate == InitUp /\ [][NextGate]_vars

(***************************************************************************)
(* The whole program from the start of the script, one request suspended   *)
(* at a time.                                                              *)
(***************************************************************************)
NoneSuspended == listing.pc = "idle" /\ \A s \in 1..MaxRegs : regs[s].pc = "idle"

Next ==
    \/ Boot
    \/ Deliver
    \/ \E e \in {"a@x.com", ""}, p \in {"p"} :
           NoneSuspended /\ RegisterStart(1, e, p)
    \/ \E ok \in BOOLEAN : RegisterSelect(1, ok)
    \/ \E ok \in BOOLEAN : RegisterInsert(1, ok)
    \/ \E e \in {"a@x.com"}, p \in Passwords, ok \in BOOLEAN : Login(e, p, ok)
    \/ \E r \in Routes, k \in Kinds, a \in {NoHeader, Bearer(Garbage)} : Stop(r, k, a)
    \/ \E k \in Kinds, a \in Issued({UserPayload}, now), p \in {NoRaw, Chars(<<"-", "1">>)} :
           NoneSuspended /\ ListStart(k, a, p, NoRaw)
    \/ \E ok \in BOOLEAN : ListSelect(ok)
    \/ \E ok \in BOOLEAN : ListCount(ok)
    \/ \E k \in Kinds, a \in Issued({UserPayload}, now), ok \in BOOLEAN :
           listing.pc = "idle" /\ Create(k, a, "f1", NoFile, ok)
    \/ \E k \in Kinds, a \in Issued({UserPayload}, now), i \in IdInputs, ok \in BOOLEAN :
           listing.pc = "idle" /\ Update(k, a, i, "f2", NoFile, Placeholder, ok)
    \/ \E k \in Kinds, a \in Issued({UserPayload}, now), i \in IdInputs, ok \in BOOLEAN :
           listing.pc = "idle" /\ Delete(k, a, i, ok)

Spec == Init /\ [][Next]_vars

(***************************************************************************)
(* The properties.  A response that follows a failed store query is the    *)
(* subject of C10; C3, C4, C6 and C7 speak of the requests whose queries   *)
(* the store answered.                                                     *)
(***************************************************************************)
Answered(r) == r.route # "none"
HasToken(authHeader) == authHeader.present /\ authHeader.rest # <<>>
Bad(token, t) == token.fmt # "jwt" \/ token.sig # Secret \/ t >= token.exp

\* C1: on each of the eight resource routes a request without an Authorization
\* header is answered 401 'Token required' and a request whose bearer token is
\* malformed, expired or signed with another key is answered 403 'Invalid
\* token'; such a request issues no query and uploads no file; a handler runs
\* only for a token that verifies, with the token's {id, role} on the request.
C1_AuthGate ==
    /\ (Answered(res) /\ res.route \in Routes) =>
          /\ ~res.auth.present => res.status = 401 /\ res.body = "Token required"
          /\ (HasToken(res.auth) /\ Bad(res.auth.rest[1], res.at)) =>
                 res.status = 403 /\ res.body = "Invalid token"
          /\ res.status \in {401, 403} =>
                 /\ res.queries = 0 /\ res.writes = 0 /\ ~res.uploaded
                 /\ res.user = NoUser
          /\ res.status \notin {401, 403} =>
                 /\ HasToken(res.auth) /\ ~Bad(res.auth.rest[1], res.at)
                 /\ res.user = [id |-> res.auth.rest[1].id, role |-> res.auth.rest[1].role]
    /\ listing.pc # "idle" =>
          /\ HasToken(listing.auth) /\ ~Bad(listing.auth.rest[1], listing.at)
          /\ listing.user = [id |-> listing.auth.rest[1].id,
                             role |-> listing.auth.rest[1].role]

\* an update with a token of the server's own that has expired is answered 403
C1_Witness ==
    /\ res.route = "update" /\ res.status = 403
    /\ HasToken(res.auth) /\ res.auth.rest[1].sig = Secret
    /\ res.auth.rest[1].fmt = "jwt"

\* C2: no two rows of the users table have the same email, whatever the
\* interleaving of the register requests.
C2_UniqueEmails ==
    \A i, j \in 1..Len(users) : users[i].email = users[j].email => i = j

\* a register request is suspended between its SELECT and its INSERT while
\* another one has inserted the same email
C2_Witness ==
    \E s \in 1..MaxRegs :
        /\ regs[s].pc = "insert"
        /\ \E i \in 1..Len(users) : users[i].email = regs[s].email

\* C3: a register request whose email is stored when it is looked up is
\* answered 400 'Email already exists' whatever its password, and a request
\* with an absent or empty email or password is answered 400 'Invalid input'
\* without a query; neither changes the users table.
C3_RegisterConflict ==
    (Answered(res) /\ res.route = "register") =>
        /\ (Falsy(res.email) \/ Falsy(res.password)) =>
               /\ res.status = 400 /\ res.body = "Invalid input"
               /\ res.queries = 0 /\ users = res.pre
        /\ (res.stored /\ ~(res.queries = 1 /\ res.failed = 1)) =>
               /\ res.status = 400 /\ res.body = "Email already exists"
               /\ res.writes = 0 /\ users = res.pre

\* a conflict answered to a password other than the stored one
C3_Witness ==
    /\ res.route = "register" /\ res.status = 400
    /\ res.body = "Email already exists"
    /\ \E i \in 1..Len(users) :
           users[i].email = res.email /\ users[i].password # res.password

Match(tbl, email, password) ==
    \E i \in 1..Len(tbl) : tbl[i].email = email /\ tbl[i].password = password

\* C4: login answers 200 with a token exactly when a stored user has that
\* email and that password, the token carrying the user's id and role and the
\* answer its role; otherwise it answers 401 without a token; it leaves the
\* users table alone; and right after a successful register, a login with
\* the same email and password succeeds with role 'user'.
C4_Login ==
    /\ (Answered(res) /\ res.route = "login" /\ res.failed = 0) =>
          /\ res.status = 200 <=> Match(res.pre, res.email, res.password)
          /\ res.status = 200 =>
                 \E i \in 1..Len(res.pre) :
                     /\ res.pre[i].email = res.email
                     /\ res.pre[i].password = res.password
                     /\ res.token.fmt = "jwt" /\ res.token.sig = Secret
                     /\ res.token.id = res.pre[i].id
                     /\ res.token.role = res.pre[i].role
                     /\ res.role = res.pre[i].role
          /\ res.status # 200 => res.status = 401 /\ res.token = NoToken
    /\ (Answered(res) /\ res.route = "login") => users = res.pre
    /\ (res.route = "register" /\ res.status = 201) =>
          LET a == LoginAnswer(users, res.email, res.password, TRUE, now)
          IN  a.status = 200 /\ a.role = "user" /\ a.token.role = "user"

\* a login of the second registered user succeeds
C4_Witness ==
    /\ res.route = "login" /\ res.status = 200
    /\ res.token.id = 2 /\ Len(users) = 2

Positive(v) == ~v.nan /\ v.val > 0

\* C5: the page and limit a list request uses are positive, the parsed value
\* when that is a positive integer and the defaults 1 and 10 otherwise, and
\* the offset is never negative.
C5_PositivePaging ==
    listing.pc # "idle" =>
        /\ listing.page >= 1 /\ listing.limit >= 1 /\ listing.offset >= 0
        /\ listing.page = IF Positive(parseInt(listing.praw))
                          THEN parseInt(listing.praw).val ELSE DefaultPage
        /\ listing.limit = IF Positive(parseInt(listing.lraw))
                           THEN parseInt(listing.lraw).val ELSE DefaultLimit

\* the rows at positions (page-1)*limit+1 .. min(page*limit, N) of a table
Positions(tbl, page, limit) ==
    SubSeq(tbl, (page - 1) * limit + 1, Min(page * limit, Len(tbl)))

ListOk(r) == Answered(r) /\ r.route = "list" /\ r.status = 200

\* C6 as stated: the rows and the total of a list answer are those of one
\* table of N rows.
C6_OneTable ==
    ListOk(res) =>
        \E tbl \in {res.seen, res.pre} :
            /\ res.items = Positions(tbl, res.page, res.limit)
            /\ res.total = Len(tbl)

\* C6, amended: the rows of a list answer are the rows at the positions of
\* the page in the table as the SELECT found it, the total is the row count
\* as the COUNT found it, the page and limit are echoed, and the table is
\* left as it was; with no write between the two queries the table is one.
C6_ListPage ==
    ListOk(res) =>
        /\ res.page >= 1 /\ res.limit >= 1
        /\ res.items = Positions(res.seen, res.page, res.limit)
        /\ res.total = Len(res.pre)
        /\ res.seen = res.pre =>
               /\ res.total = Len(res.seen)
               /\ (res.page - 1) * res.limit >= Len(res.seen) => res.items = <<>>
        /\ res.page = PageOf(res.praw) /\ res.limit = LimitOf(res.lraw)
        /\ (~res.praw.present /\ ~res.lraw.present /\ res.seen = <<>> /\ res.pre = <<>>) =>
               /\ res.items = <<>> /\ res.total = 0
               /\ res.page = 1 /\ res.limit = 10
        /\ Table(res.kind) = res.pre /\ OtherTable(res.kind) = res.preOther

\* a second page that is not empty
C6_Witness == ListOk(res) /\ res.page = 2 /\ res.items # <<>>

Others(tbl, id) == SelectSeq(tbl, LAMBDA r : r.id # id)

\* C7: an update or a delete of an id that is not in the table answers 200
\* and leaves both tables as they were; a second delete of an id changes
\* nothing; an update or a delete of an id that is in the table leaves the
\* other rows and the other table as they were.
C7_Frame ==
    (Answered(res) /\ res.route \in {"update", "delete"} /\ res.failed = 0
        /\ res.status \notin {401, 403}) =>
        LET tbl == Table(res.kind) IN
        /\ res.status = 200
        /\ res.body = Cap(res.kind) \o (IF res.route = "update" THEN " updated" ELSE " deleted")
        /\ OtherTable(res.kind) = res.preOther
        /\ res.id \notin Ids(res.pre) => tbl = res.pre
        /\ Others(tbl, res.id) = Others(res.pre, res.id)
        /\ res.route = "update" =>
               /\ Len(tbl) = Len(res.pre)
               /\ \A i \in 1..Len(tbl) : tbl[i].id = res.pre[i].id
        /\ res.route = "delete" =>
               /\ res.id \notin Ids(tbl)
               /\ DeleteRows(tbl, res.id) = tbl

\* an update of an id that is not in a table that has rows
C7_Witness ==
    /\ res.route = "update" /\ res.status = 200
    /\ res.pre # <<>> /\ res.id \notin Ids(res.pre)

RowOf(tbl, id) == tbl[CHOOSE i \in 1..Len(tbl) : tbl[i].id = id]

\* C8: a create without an attachment stores the placeholder and one with an
\* attachment a reference other than the placeholder; an update replaces the
\* fields, keeps the id, stores the new reference when a file is attached and
\* keeps the stored image when none is.
C8_Image ==
    /\ (res.route = "create" /\ res.status = 201) =>
          /\ res.id \in Ids(Table(res.kind))
          /\ ~res.file.present => RowOf(Table(res.kind), res.id).image = Placeholder
          /\ res.file.present => RowOf(Table(res.kind), res.id).image # Placeholder
    /\ (res.route = "update" /\ res.status = 200 /\ res.id \in Ids(res.pre)) =>
          /\ res.id \in Ids(Table(res.kind))
          /\ RowOf(Table(res.kind), res.id).fields = res.fields
          /\ res.file.present =>
                 RowOf(Table(res.kind), res.id).image = UploadRef(res.file)
          /\ ~res.file.present =>
                 RowOf(Table(res.kind), res.id).image = RowOf(res.pre, res.id).image

Handling ==
    \/ Answered(res)
    \/ listing.pc # "idle"
    \/ \E s \in 1..MaxRegs : regs[s].pc # "idle"

\* C9: app.listen is not invoked and no request is handled before the
\* connection check has succeeded, and it is invoked at most once.
C9_ListenAfterCheck ==
    /\ listenCalls <= 1
    /\ listenCalls >= 1 => connCheck = "ok"
    /\ Handling => connCheck = "ok"

Generic ==
    {"Registration failed", "Login failed", "Failed to fetch devices",
     "Failed to fetch services", "Failed to add device", "Failed to add service",
     "Failed to update device", "Failed to update service",
     "Failed to delete device", "Failed to delete service"}

\* C10: a request with a failed store query is answered 500 with a generic
\* message and nothing else, after that one failure, with no row changed; no
\* request issues more than one write.
C10_StoreFailure ==
    Answered(res) =>
        /\ res.writes <= 1 /\ res.failed <= 1 /\ res.applied <= res.writes
        /\ res.failed = 1 =>
               /\ res.status = 500 /\ res.body \in Generic
               /\ res.applied = 0
               /\ res.token = NoToken /\ res.items = <<>>
               /\ IF res.kind = "users" THEN users = res.pre
                  ELSE Table(res.kind) = res.pre /\ OtherTable(res.kind) = res.preOther
        /\ res.status \in {200, 201} => res.failed = 0

\* the INSERT of a register request has failed
C10_Witness ==
    /\ res.route = "register" /\ res.queries = 2 /\ res.failed = 1
    /\ res.status = 500
====
